---- MODULE Spec2Model ----
(***************************************************************************)
(* Model of raytracing-main/main.cpp: the Phong shading function           *)
(* calculate_light_intensity, and the program main() with its three window *)
(* callbacks (on_paint, on_keydown, on_resize).                            *)
(*                                                                         *)
(* Numbers.  The code computes in double; the model computes in exact      *)
(* rationals <<n, d>> (d > 0, lowest terms).  Vectors are triples of       *)
(* integers counted in fifths, so that unit vectors such as (3/5, 4/5, 0)  *)
(* are exact.  Light positions are counted in units of 0.05 and light      *)
(* intensities in units of 0.1, the granularity of the animation step.     *)
(*                                                                         *)
(* Library calls.  bardrix (vectors, quaternion, camera, light, color) is  *)
(* an external library; the values its calls return are inputs of the      *)
(* model or are kept as symbolic terms.  window.h and sphere.h belong to   *)
(* the repository but are not among the sources; what the model needs of   *)
(* them is taken from the specification and marked as such.                *)
(***************************************************************************)
EXTENDS Integers, Sequences, FiniteSets, TLC

VARIABLES
    sh,          \* one evaluation of calculate_light_intensity: inputs, result
    pc,          \* position of main(): "start", "run", "paint", "exit"
    active,      \* call stack of callbacks on the UI thread
    win,         \* the window: width, height, closed, redraw pending
    camera,      \* bardrix::camera captured by the callbacks
    spheres,     \* std::vector<sphere>
    lights,      \* std::vector<bardrix::light>
    buffer,      \* the pixel buffer handed to on_paint
    hits,        \* per pixel (x, y), the spheres the last on_paint found hit
    frame,       \* number of on_paint invocations begun
    writes,      \* per buffer index, writes made by the last on_paint
    oob,         \* an on_paint write fell outside the buffer
    anims,       \* animation steps applied by the last on_paint
    redraws,     \* redraw() calls made by the last on_paint
    closed_redraws, \* redraw() calls made on a window already closed
    at_close,    \* scene state at the moment close() was called
    events,      \* numbers of key and of resize events delivered so far
    last_event,  \* the last event delivered
    output,      \* what main() wrote to std::cout
    exit_status, \* <<>> while main() runs, then <<its return value>>
    show_result  \* outcome of window.show(): "none", "ok", "failed"

vars == <<sh, pc, active, win, camera, spheres, lights, buffer, hits,
          frame, writes, oob, anims, redraws, closed_redraws, at_close, events,
          last_event, output, exit_status, show_result>>

mainVars == <<pc, active, win, camera, spheres, lights, buffer, hits,
              frame, writes, oob, anims, redraws, closed_redraws, at_close,
              events, last_event, output, exit_status, show_result>>

----------------------------------------------------------------------------
(* Bounds *)

MaxShininess == 3
MaxPixels == 4
MaxFrames == 2
MaxEvents == 1

----------------------------------------------------------------------------
(* Exact rational arithmetic standing for double *)

Abs(n) == IF n < 0 THEN -n ELSE n

RECURSIVE GCD(_, _)
GCD(a, b) == IF b = 0 THEN a ELSE GCD(b, a % b)

Rat(n, d) ==
    LET g == GCD(Abs(n), Abs(d))
        s == IF d < 0 THEN -1 ELSE 1
    IN  <<(s * n) \div g, (s * d) \div g>>

Zero == <<0, 1>>
One == <<1, 1>>

RAdd(a, b) == Rat(a[1] * b[2] + b[1] * a[2], a[2] * b[2])
RMul(a, b) == Rat(a[1] * b[1], a[2] * b[2])
RLess(a, b) == a[1] * b[2] < b[1] * a[2]
RLeq(a, b) == a[1] * b[2] <= b[1] * a[2]

\* std::min(a, b): b if b < a, else a
RMin(a, b) == IF RLess(b, a) THEN b ELSE a
RMax(a, b) == IF RLess(a, b) THEN b ELSE a

\* std::pow(x, k) for a positive integer exponent k
RECURSIVE RPow(_, _)
RPow(x, k) == IF k = 0 THEN One ELSE RMul(x, RPow(x, k - 1))

\* vector3::dot, on vectors counted in fifths
Dot(u, v) == Rat(u[1] * v[1] + u[2] * v[2] + u[3] * v[3], 25)

----------------------------------------------------------------------------
(* calculate_light_intensity *)

\* g holds what the library returned for (shape, light, camera, point):
\*   normal      shape.normal_at(intersection_point)
\*   light_dir   intersection_point.vector_to(light.position).normalized()
\*   reflection  quaternion::mirror(light_dir, normal)
\*   view_dir    camera.position.vector_to(intersection_point).normalized()
\*   attenuation light.inverse_square_law(intersection_point)
Angle(g) == Dot(g.normal, g.light_dir)

SpecularAngle(g) == Dot(g.reflection, g.view_dir)

Phong(material, g) ==
    LET specular == RPow(SpecularAngle(g), material.shininess)
        i0 == material.ambient
        i1 == RAdd(i0, RMul(material.diffuse, Angle(g)))
        i2 == RAdd(i1, RMul(material.specular, specular))
    IN  RMin(One, RMul(i2, g.attenuation))

MutNoBehindCheck(material, g) == Phong(material, g)

calculate_light_intensity(material, g) ==
    IF RLess(Angle(g), Zero) THEN Zero ELSE Phong(material, g)

----------------------------------------------------------------------------
(* Inputs of the shading evaluation *)

Coefficients == {Zero, Rat(1, 2), One}

Materials ==
    [ambient : Coefficients, diffuse : Coefficients, specular : Coefficients,
     shininess : 1..MaxShininess]

Normals == {<<0, 0, 5>>, <<3, 4, 0>>}
LightDirs == {<<0, 0, 5>>, <<0, 0, -5>>, <<0, 5, 0>>, <<4, 3, 0>>, <<-3, 0, 4>>}
Reflections == {<<0, 0, 5>>, <<0, 0, -5>>, <<5, 0, 0>>, <<0, 3, -4>>}
ViewDirs == {<<0, 0, 5>>, <<0, 0, -5>>, <<0, 4, 3>>}
Attenuations == {Zero, Rat(1, 4), One, Rat(4, 1)}

Geometries ==
    [normal : Normals, light_dir : LightDirs, reflection : Reflections,
     view_dir : ViewDirs, attenuation : Attenuations]

NoShade == [done |-> FALSE, material |-> <<>>, g |-> <<>>, result |-> Zero]

----------------------------------------------------------------------------
(* The scene built by main() *)

\* bardrix::material(ambient, diffuse, specular, shininess [, color])
Material(a, d, s, n, c) ==
    [ambient |-> a, diffuse |-> d, specular |-> s, shininess |-> n, color |-> c]

InitSpheres ==
    << [radius |-> 1, center |-> <<0, 0, 3>>,
        material |-> Material(Rat(3, 10), One, Rat(8, 10), 20, "default")],
       [radius |-> 1, center |-> <<0, 0, -3>>,
        material |-> Material(Rat(3, 10), One, Rat(8, 10), 20, "magenta")] >>

\* positions in units of 0.05, intensities in units of 0.1
InitLights ==
    << [position |-> <<40, 20, 20>>, intensity |-> 10, color |-> "cyan"],
       [position |-> <<-40, -20, -20>>, intensity |-> 50, color |-> "yellow"],
       [position |-> <<20, 20, 0>>, intensity |-> 20, color |-> "cyan"] >>

\* position: the displacements applied to (0,0,0); direction: the rotations
\* applied to (0,0,1).  Both are kept as terms: the arithmetic is bardrix's.
InitCamera(w, h) ==
    [position |-> <<>>, direction |-> <<>>, width |-> w, height |-> h, fov |-> 60]

\* Window sizes within the bound (600 x 600 in the code)
Sizes ==
    {s \in (1..MaxPixels) \X (1..MaxPixels) : s[1] * s[2] <= MaxPixels}

----------------------------------------------------------------------------
(* The window: bardrix::window of window.h *)

\* the buffer the window hands to on_paint: width * height slots
Blank == [argb |-> <<>>, frame |-> 0]

NewBuffer(w, h) == [i \in 0..(w * h - 1) |-> Blank]

\* a resized buffer keeps the slots it had, as far as they fit
ResizeBuffer(buf, w, h) ==
    [i \in 0..(w * h - 1) |-> IF i \in DOMAIN buf THEN buf[i] ELSE Blank]

InitWindow(w, h) == [width |-> w, height |-> h, closed |-> FALSE, pending |-> FALSE]

\* window::redraw(): the paint is scheduled, not run
Redraw(w) == [w EXCEPT !.pending = TRUE]

\* window::close()
Close(w) == [w EXCEPT !.closed = TRUE]

----------------------------------------------------------------------------
(* on_paint: the colour of one pixel *)

Black == <<>>

\* s.get_material().color.blended(l.color) * calculate_light_intensity(s, l, camera, point)
\* as a term: the shape, the light, the light's state at the call, and the
\* pixel whose ray gave the intersection point
Contribution(s, l, ls, x, y) == <<s, l, ls[l], x, y>>

\* for (bardrix::light& l : lights) tmpcolor += ...
RECURSIVE LightLoop(_, _, _, _, _, _)
LightLoop(s, l, ls, x, y, tmpcolor) ==
    IF l > Len(ls) THEN tmpcolor
    ELSE LightLoop(s, l + 1, ls, x, y, Append(tmpcolor, Contribution(s, l, ls, x, y)))

\* for (sphere s : spheres) ...; hit: the spheres whose intersection has a value
RECURSIVE ShapeLoopFrom(_, _, _, _, _, _, _)
ShapeLoopFrom(s, shapes, hit, ls, x, y, color) ==
    IF s > Len(shapes) THEN color
    ELSE ShapeLoopFrom(s + 1, shapes, hit, ls, x, y,
            IF s \in hit THEN LightLoop(s, 1, ls, x, y, Black) ELSE color)

\* color += tmpcolor in place of color = tmpcolor
RECURSIVE MutAccumulateFrom(_, _, _, _, _, _, _)
MutAccumulateFrom(s, shapes, hit, ls, x, y, color) ==
    IF s > Len(shapes) THEN color
    ELSE MutAccumulateFrom(s + 1, shapes, hit, ls, x, y,
            IF s \in hit THEN color \o LightLoop(s, 1, ls, x, y, Black) ELSE color)

\* the light loop run outside the has_value() test
RECURSIVE MutShadeMissesFrom(_, _, _, _, _, _, _)
MutShadeMissesFrom(s, shapes, hit, ls, x, y, color) ==
    IF s > Len(shapes) THEN color
    ELSE MutShadeMissesFrom(s + 1, shapes, hit, ls, x, y,
            LightLoop(s, 1, ls, x, y, Black))

MutAccumulate(shapes, hit, ls, x, y) ==
    MutAccumulateFrom(1, shapes, hit, ls, x, y, Black)

MutShadeMisses(shapes, hit, ls, x, y) ==
    MutShadeMissesFrom(1, shapes, hit, ls, x, y, Black)

PixelColor(shapes, hit, ls, x, y) ==
    ShapeLoopFrom(1, shapes, hit, ls, x, y, Black)

\* y * height + x
MutIndexByHeight(x, y, w, h) == y * h + x

\* buffer[y * window->get_width() + x]
PixelIndex(x, y, w, h) == y * w + x

----------------------------------------------------------------------------
(* on_paint: the animation step *)

MutAnimateFirstToo(ls) ==
    [ls EXCEPT ![1].position = <<@[1] + 2, @[2] + 2, @[3] + 2>>,
               ![2].position = <<@[1] + 2, @[2] + 1, @[3] - 2>>,
               ![2].intensity = @ + 1]

\* lights[1] of the code is element 2 here
Animate(ls) ==
    [ls EXCEPT ![2].position = <<@[1] + 2, @[2] + 1, @[3] - 2>>,
               ![2].intensity = @ + 1]

----------------------------------------------------------------------------
(* on_keydown *)

Keys == {"ESCAPE", "W", "A", "S", "D", "SHIFT", "SPACE",
         "UP", "DOWN", "LEFT", "RIGHT", "OTHER"}

Move(cam, sign, what) ==
    [cam EXCEPT !.position = Append(@, <<sign, what, cam.direction>>)]

Rotate(cam, axis, degrees) ==
    [cam EXCEPT !.direction = Append(@, <<axis, degrees>>)]

\* the switch: the camera after the key
KeyCamera(cam, key) ==
    CASE key = "W" -> Move(cam, "+", "direction * 0.1")
      [] key = "A" -> Move(cam, "-", "direction x (0,1,0) normalized * 0.1")
      [] key = "S" -> Move(cam, "-", "direction * 0.1")
      [] key = "D" -> Move(cam, "+", "direction x (0,1,0) normalized * 0.1")
      [] key = "SHIFT" -> Move(cam, "-", "(0, 0.1, 0)")
      [] key = "SPACE" -> Move(cam, "+", "(0, 0.1, 0)")
      [] key = "UP" -> Rotate(cam, "x", 2)
      [] key = "DOWN" -> Rotate(cam, "x", -2)
      [] key = "LEFT" -> Rotate(cam, "y", -2)
      [] key = "RIGHT" -> Rotate(cam, "y", 2)
      [] OTHER -> cam

\* default: return, before the redraw
Handled(key) == key # "OTHER"

----------------------------------------------------------------------------
(* on_paint: the loops over y and x *)

Pixels(w, h) == (0..(w - 1)) \X (0..(h - 1))

\* st: the buffer with the ledger of the writes made to it
\* buffer[y * window->get_width() + x] = color.argb()
WritePixel(x, y, w, h, hm, shapes, ls, f, st) ==
    LET idx == PixelIndex(x, y, w, h)
        color == PixelColor(shapes, hm[<<x, y>>], ls, x, y)
    IN  IF idx \in DOMAIN st.buffer
        THEN [st EXCEPT !.buffer[idx] = [argb |-> color, frame |-> f],
                        !.writes[idx] = @ + 1]
        ELSE [st EXCEPT !.oob = TRUE]

\* for (int x = 0; x < window->get_width(); x++)
RECURSIVE XLoop(_, _, _, _, _, _, _, _, _)
XLoop(x, y, w, h, hm, shapes, ls, f, st) ==
    IF x < w
    THEN XLoop(x + 1, y, w, h, hm, shapes, ls, f,
               WritePixel(x, y, w, h, hm, shapes, ls, f, st))
    ELSE st

\* for (int y = 0; y < window->get_height(); y++)
RECURSIVE YLoop(_, _, _, _, _, _, _, _)
YLoop(y, w, h, hm, shapes, ls, f, st) ==
    IF y < h
    THEN YLoop(y + 1, w, h, hm, shapes, ls, f,
               XLoop(0, y, w, h, hm, shapes, ls, f, st))
    ELSE st

\* The outcomes of s.intersection(ray) over a frame.  Seen from the camera a
\* sphere is out of view, fills the view, or covers the first pixel alone.
Silhouettes(w, h) ==
    {{}, Pixels(w, h), {<<0, 0>>}}

HitMaps(w, h, n) ==
    {[p \in Pixels(w, h) |-> {s \in 1..n : p \in sil[s]}] :
        sil \in [1..n -> Silhouettes(w, h)]}

----------------------------------------------------------------------------
(* main() *)

NoEvent == [kind |-> "none", key |-> "", redrew |-> FALSE]

Snapshot == [lights |-> lights, camera |-> camera, frame |-> frame]

MainInit(w, h) ==
    /\ pc = "start"
    /\ active = <<>>
    /\ win = InitWindow(w, h)
    /\ camera = InitCamera(w, h)
    /\ spheres = InitSpheres
    /\ lights = InitLights
    /\ buffer = NewBuffer(w, h)
    /\ hits = <<>>
    /\ frame = 0
    /\ writes = <<>>
    /\ oob = FALSE
    /\ anims = 0
    /\ redraws = 0
    /\ closed_redraws = 0
    /\ at_close = <<>>
    /\ events = [keys |-> 0, resizes |-> 0]
    /\ last_event = NoEvent
    /\ output = <<>>
    /\ exit_status = <<>>
    /\ show_result = "none"

Init ==
    /\ sh = NoShade
    /\ \E s \in Sizes : MainInit(s[1], s[2])

\* GetLastError() values
ErrorCodes == {2, 1400}

\* window.show(...) returned true; bardrix::window::run() is entered and the
\* shown window is due its first paint
ShowOk ==
    /\ pc = "start"
    /\ pc' = "run"
    /\ show_result' = "ok"
    /\ win' = Redraw(win)
    /\ UNCHANGED <<sh, active, camera, spheres, lights, buffer, hits, frame, writes,
                   oob, anims, redraws, closed_redraws, at_close, events,
                   last_event, output, exit_status>>

\* falls through to window::run() after reporting the error
MutShowFailRuns ==
    /\ pc = "start"
    /\ \E code \in ErrorCodes : output' = Append(output, code)
    /\ pc' = "run"
    /\ show_result' = "failed"
    /\ win' = Redraw(win)
    /\ UNCHANGED <<sh, active, camera, spheres, lights, buffer, hits, frame, writes,
                   oob, anims, redraws, closed_redraws, at_close, events,
                   last_event, exit_status>>

\* window.show(...) returned false
ShowFail ==
    /\ pc = "start"
    /\ \E code \in ErrorCodes : output' = Append(output, code)
    /\ exit_status' = << -1 >>
    /\ pc' = "exit"
    /\ show_result' = "failed"
    /\ UNCHANGED <<sh, active, win, camera, spheres, lights, buffer, hits, frame,
                   writes, oob, anims, redraws, closed_redraws, at_close, events,
                   last_event>>

\* the event loop is idle: no callback is running
Idle == pc = "run" /\ active = <<>> /\ ~win.closed

\* the event loop takes up a pending redraw and calls on_paint
DispatchPaint ==
    /\ Idle
    /\ win.pending
    /\ frame < MaxFrames
    /\ pc' = "paint"
    /\ active' = Append(active, "on_paint")
    /\ win' = [win EXCEPT !.pending = FALSE]
    /\ frame' = frame + 1
    /\ UNCHANGED <<sh, camera, spheres, lights, buffer, hits, writes, oob, anims,
                   redraws, closed_redraws, at_close, events, last_event, output,
                   exit_status, show_result>>

\* what the loops of on_paint leave, given the spheres hit at each pixel
Painted(hm) ==
    YLoop(0, win.width, win.height, hm, spheres, lights, frame,
          [buffer |-> buffer, writes |-> [i \in DOMAIN buffer |-> 0], oob |-> FALSE])

\* on_paint called again from its own end, in place of window->redraw()
MutOnPaintReenters ==
    /\ pc = "paint"
    /\ frame < MaxFrames
    /\ \E hm \in HitMaps(win.width, win.height, Len(spheres)) :
         LET st == Painted(hm)
         IN  /\ hits' = hm
             /\ buffer' = st.buffer
             /\ writes' = st.writes
             /\ oob' = st.oob
    /\ lights' = Animate(lights)
    /\ anims' = 1
    /\ redraws' = 0
    /\ active' = Append(active, "on_paint")
    /\ frame' = frame + 1
    /\ UNCHANGED <<sh, pc, win, camera, spheres, closed_redraws, at_close, events,
                   last_event, output, exit_status, show_result>>

\* on_paint, from its first statement to its return
OnPaint ==
    /\ pc = "paint"
    /\ \E hm \in HitMaps(win.width, win.height, Len(spheres)) :
         LET st == Painted(hm)
         IN  /\ hits' = hm
             /\ buffer' = st.buffer
             /\ writes' = st.writes
             /\ oob' = st.oob
    /\ lights' = Animate(lights)
    /\ anims' = 1
    /\ win' = Redraw(win)
    /\ redraws' = 1
    /\ active' = SubSeq(active, 1, Len(active) - 1)
    /\ pc' = "run"
    /\ last_event' = [kind |-> "paint", key |-> "", redrew |-> TRUE]
    /\ UNCHANGED <<sh, camera, spheres, frame, closed_redraws, at_close, events,
                   output, exit_status, show_result>>

\* the event loop calls on_keydown
OnKeydown ==
    /\ Idle
    /\ events.keys + events.resizes < MaxEvents
    /\ \E key \in Keys :
         LET w1 == IF key = "ESCAPE" THEN Close(win) ELSE win
         IN  /\ camera' = KeyCamera(camera, key)
             /\ win' = IF Handled(key) THEN Redraw(w1) ELSE w1
             /\ closed_redraws' =
                    IF Handled(key) /\ w1.closed THEN closed_redraws + 1 ELSE closed_redraws
             /\ at_close' = IF key = "ESCAPE" THEN Snapshot ELSE at_close
             /\ last_event' = [kind |-> "key", key |-> key, redrew |-> Handled(key)]
    /\ events' = [events EXCEPT !.keys = @ + 1]
    /\ UNCHANGED <<sh, pc, active, spheres, lights, buffer, hits, frame, writes, oob,
                   anims, redraws, output, exit_status, show_result>>

\* the window takes its new size and calls on_resize
OnResize ==
    /\ Idle
    /\ events.keys + events.resizes < MaxEvents
    /\ \E s \in Sizes :
         /\ win' = Redraw([win EXCEPT !.width = s[1], !.height = s[2]])
         /\ buffer' = ResizeBuffer(buffer, s[1], s[2])
         /\ camera' = [camera EXCEPT !.width = s[1], !.height = s[2]]
    /\ events' = [events EXCEPT !.resizes = @ + 1]
    /\ last_event' = [kind |-> "resize", key |-> "", redrew |-> TRUE]
    /\ UNCHANGED <<sh, pc, active, spheres, lights, hits, frame, writes, oob, anims,
                   redraws, closed_redraws, at_close, output, exit_status,
                   show_result>>

\* the window is closed: run() returns and main() ends
Quit ==
    /\ pc = "run"
    /\ active = <<>>
    /\ win.closed
    /\ pc' = "exit"
    /\ exit_status' = <<0>>
    /\ UNCHANGED <<sh, active, win, camera, spheres, lights, buffer, hits, frame,
                   writes, oob, anims, redraws, closed_redraws, at_close, events,
                   last_event, output, show_result>>

Next ==
    \/ ShowOk
    \/ ShowFail
    \/ DispatchPaint
    \/ OnPaint
    \/ OnKeydown
    \/ OnResize
    \/ Quit

Spec == Init /\ [][Next]_vars

----------------------------------------------------------------------------
(* calculate_light_intensity on its own *)

InitShade ==
    /\ sh \in [done : {FALSE}, material : Materials, g : Geometries, result : {Zero}]
    /\ MainInit(1, 1)

Shade ==
    /\ ~sh.done
    /\ sh' = [sh EXCEPT !.done = TRUE,
                        !.result = calculate_light_intensity(sh.material, sh.g)]
    /\ UNCHANGED mainVars

NextShade == Shade

SpecShade == InitShade /\ [][NextShade]_vars

----------------------------------------------------------------------------
(* Claims about calculate_light_intensity, under SpecShade *)

\* C1 (as amended): whenever the dot product of the normal with the unit
\* vector to the light is strictly less than 0, calculate_light_intensity
\* returns exactly 0.
C1_BehindIsZero ==
    (sh.done /\ RLess(Angle(sh.g), Zero)) => sh.result = Zero

C1_Witness ==
    /\ sh.done
    /\ RLess(Angle(sh.g), Zero)
    /\ RLess(Zero, sh.material.ambient)
    /\ RLess(Zero, sh.g.attenuation)
    /\ sh.result = Zero

\* C1 (as stated): whenever the dot product is less than or equal to 0,
\* exactly 0 included, calculate_light_intensity returns exactly 0.
C1_Original ==
    (sh.done /\ RLeq(Angle(sh.g), Zero)) => sh.result = Zero

\* C2: for valid inputs the value returned lies in [0, 1]; it is never
\* negative, also when the reflection/view dot product is negative.
C2_Range ==
    sh.done => (RLeq(Zero, sh.result) /\ RLeq(sh.result, One))

\* C3: when the normal/light dot product is non-negative the value returned is
\* min(1, (ambient + diffuse * angle + specular * max(specular_angle, 0)^shininess)
\*        * attenuation).
C3_ClampedFormula ==
    (sh.done /\ RLeq(Zero, Angle(sh.g))) =>
        sh.result =
            RMin(One,
                 RMul(RAdd(RAdd(sh.material.ambient,
                                RMul(sh.material.diffuse, Angle(sh.g))),
                           RMul(sh.material.specular,
                                RPow(RMax(SpecularAngle(sh.g), Zero),
                                     sh.material.shininess))),
                      sh.g.attenuation))

----------------------------------------------------------------------------
(* Claims about main() and its callbacks, under Spec *)

\* on_paint invocations that have returned
Completed == IF pc = "paint" THEN frame - 1 ELSE frame

\* the lights after k animation steps, written out
LightsAfter(k) ==
    << [position |-> <<40, 20, 20>>, intensity |-> 10, color |-> "cyan"],
       [position |-> <<-40 + 2 * k, -20 + k, -20 - 2 * k>>, intensity |-> 50 + k,
        color |-> "yellow"],
       [position |-> <<20, 20, 0>>, intensity |-> 20, color |-> "cyan"] >>

\* on_paint has just returned: the buffer is the frame it painted
JustPainted == last_event.kind = "paint" /\ pc = "run"

SlotOf(p) == p[2] * win.width + p[1]

LastOf(hit) == CHOOSE s \in hit : \A r \in hit : r <= s

\* C4: a pixel whose ray intersects no shape is written black, in every
\* frame and whatever the lights are.
C4_MissIsBlack ==
    JustPainted =>
        \A p \in DOMAIN hits : hits[p] = {} => buffer[SlotOf(p)].argb = Black

C4_Witness ==
    /\ JustPainted
    /\ frame = 2
    /\ lights # InitLights
    /\ \E p \in DOMAIN hits : hits[p] = {} /\ buffer[SlotOf(p)].argb = Black
    /\ \E q \in DOMAIN hits : hits[q] # {}

\* C5: a paint, also one that follows resizes, writes every slot of
\* [0, width * height) exactly once, the slot y * width + x for pixel (x, y),
\* writes nothing outside, and leaves no slot of an earlier frame or size.
C5_FullFreshFrame ==
    /\ DOMAIN buffer = 0..(win.width * win.height - 1)
    /\ JustPainted =>
         /\ ~oob
         /\ DOMAIN writes = DOMAIN buffer
         /\ \A i \in DOMAIN buffer : writes[i] = 1 /\ buffer[i].frame = frame
         /\ \A p \in Pixels(win.width, win.height) :
              /\ SlotOf(p) \in DOMAIN buffer
              /\ buffer[SlotOf(p)].argb = Black <=> hits[p] = {}
              /\ \A k \in DOMAIN buffer[SlotOf(p)].argb :
                   /\ buffer[SlotOf(p)].argb[k][4] = p[1]
                   /\ buffer[SlotOf(p)].argb[k][5] = p[2]

C5_Witness ==
    /\ JustPainted
    /\ events.resizes >= 1
    /\ frame = 2
    /\ win.width = 2
    /\ win.height = 2
    /\ camera.width = 2
    /\ camera.height = 2
    /\ \A i \in 0..3 : writes[i] = 1 /\ buffer[i].frame = 2

\* C6: if showing the window fails, the error code is reported once, main()
\* returns a non-zero status, and the event loop is never entered: no callback
\* runs and the scene is as constructed.
C6_ShowFailureExits ==
    show_result = "failed" =>
        /\ pc = "exit"
        /\ Len(output) = 1
        /\ output[1] \in ErrorCodes
        /\ Len(exit_status) = 1
        /\ exit_status[1] # 0
        /\ active = <<>>
        /\ frame = 0
        /\ events = [keys |-> 0, resizes |-> 0]
        /\ last_event = NoEvent
        /\ lights = InitLights
        /\ spheres = InitSpheres
        /\ camera = InitCamera(win.width, win.height)

C6_Witness ==
    /\ show_result = "failed"
    /\ pc = "exit"
    /\ Len(output) = 1
    /\ exit_status = << -1 >>

\* C7: the colour of a pixel whose ray intersects a shape is the sum over all
\* lights of the contributions of the last intersecting shape of the
\* enumeration, and of that shape only.
C7_LastShapeWins ==
    JustPainted =>
        \A p \in DOMAIN hits :
            hits[p] # {} =>
                buffer[SlotOf(p)].argb =
                    << <<LastOf(hits[p]), 1, LightsAfter(frame - 1)[1], p[1], p[2]>>,
                       <<LastOf(hits[p]), 2, LightsAfter(frame - 1)[2], p[1], p[2]>>,
                       <<LastOf(hits[p]), 3, LightsAfter(frame - 1)[3], p[1], p[2]>> >>

C7_Witness ==
    /\ JustPainted
    /\ \E p \in DOMAIN hits :
         /\ hits[p] = {1, 2}
         /\ Len(buffer[SlotOf(p)].argb) = 3
         /\ \A k \in 1..3 : buffer[SlotOf(p)].argb[k][1] = 2

\* C8: each paint applies the animation step once, after the pixels of the
\* frame are written, so that all pixels of a frame are shaded with one light
\* state; the step changes only the second light, by (+0.1, +0.05, -0.1) and
\* +0.1, leaves the shapes and the camera alone, and is followed by one redraw
\* request.
C8_State ==
    /\ lights = LightsAfter(Completed)
    /\ spheres = InitSpheres
    /\ (frame > 0 /\ pc # "paint") => (anims = 1 /\ redraws = 1)
    /\ JustPainted =>
         /\ win.pending
         /\ \A i \in DOMAIN buffer :
              \A k \in DOMAIN buffer[i].argb :
                  buffer[i].argb[k][3] = LightsAfter(frame - 1)[buffer[i].argb[k][2]]

\* C8: the state part above in every state, and no step of a running paint
\* changes the camera or the shapes.
C8_AnimationStep ==
    /\ []C8_State
    /\ [][pc = "paint" => (camera' = camera /\ spheres' = spheres)]_vars

C8_Witness ==
    /\ JustPainted
    /\ frame = 2
    /\ lights[2].position = <<-36, -18, -24>>
    /\ lights[2].intensity = 52
    /\ \E i \in DOMAIN buffer : buffer[i].argb # Black

\* C9: a paint runs to its end and returns to the event loop before any other
\* paint, key or resize callback begins; paints are never nested.
C9_Stack ==
    /\ Len(active) <= 1
    /\ pc = "paint" <=> active = <<"on_paint">>

C10_AfterClose ==
    win.closed =>
        /\ closed_redraws = 0
        /\ lights = at_close.lights
        /\ camera = at_close.camera
        /\ frame = at_close.frame

\* C10: the state part above in every state, and a key that is not handled
\* changes neither the window (no redraw request) nor the scene.
C10_Claim ==
    /\ []C10_AfterClose
    /\ [][(events'.keys # events.keys /\ last_event'.key = "OTHER") =>
            UNCHANGED <<win, camera, spheres, lights, buffer, frame>>]_vars

====
